---- MODULE Spec2Model ----
(***************************************************************************)
(* Model of app.py: the link-extraction function extract_info_from_url and *)
(* the "predict" button handler that calls it and then the classifier.     *)
(*                                                                         *)
(* Text.  A Python str is a sequence of characters; a character is a       *)
(* one-character string for ASCII ("a", " ") and the string "U+XXXX" for   *)
(* any other code point.  A bytes object is a sequence of integers 0..255. *)
(* None is never mixed with a str: an optional value is a record           *)
(* [some |-> BOOLEAN, val |-> str].                                        *)
(***************************************************************************)
EXTENDS Integers, Sequences, FiniteSets, TLC

\* ------------------------------------------------------------------------
\* Python str primitives used by the code
\* ------------------------------------------------------------------------

\* Characters for which str.isspace() holds (what str.strip() removes and
\* what the pattern \s matches on a str), among the characters of the model.
Whitespace == {" ", "\t", "\n", "U+3000"}

Range(s) == {s[i] : i \in DOMAIN s}

\* The function f on 1..n as the sequence of its values.
AsSeq(f) == f \o <<>>

\* str.strip(): from the first to the last character that is no whitespace.
Strip(s) ==
    LET keep == {i \in DOMAIN s : s[i] \notin Whitespace}
    IN  IF keep = {} THEN <<>>
        ELSE LET lo == CHOOSE i \in keep : \A j \in 1..(i - 1) : s[j] \in Whitespace
                 hi == CHOOSE i \in keep : \A j \in (i + 1)..Len(s) : s[j] \in Whitespace
             IN  SubSeq(s, lo, hi)

\* A string given cell by cell, "" standing for a cell that holds no
\* character: the characters of the cells in order.
Compact(cells) == SelectSeq(cells, LAMBDA c : c # "")

\* re.sub(r'\s+', ' ', s): every maximal run of whitespace becomes one space.
CollapseWhitespace(s) ==
    Compact([i \in DOMAIN s |->
                IF s[i] \notin Whitespace THEN s[i]
                ELSE IF i > 1 /\ s[i - 1] \in Whitespace THEN ""
                ELSE " "])

\* re.sub(r'\s+', ' ', s).strip()   (lines 120 and 132)
NormalizeText(s) == Strip(CollapseWhitespace(s))

\* sub in s
StartsAt(s, sub, i) ==
    /\ i >= 1
    /\ i + Len(sub) - 1 <= Len(s)
    /\ \A k \in 1..Len(sub) : s[i + k - 1] = sub[k]

Contains(s, sub) == \E i \in 1..(Len(s) + 1) : StartsAt(s, sub, i)

\* s.replace(c, '')
RemoveChar(s, c) == SelectSeq(s, LAMBDA x : x # c)

\* s.split(c): the pieces of s between the occurrences of the character c.
SplitOn(s, c) ==
    LET cuts == {i \in DOMAIN s : s[i] = c}
        F[i \in 0..Len(s)] ==
            IF i = 0 THEN << <<>> >>
            ELSE IF i \in cuts THEN Append(F[i - 1], <<>>)
            ELSE [F[i - 1] EXCEPT ![Len(F[i - 1])] = Append(@, s[i])]
    IN  F[Len(s)]

\* str.lower() on ASCII letters
LowerPairs ==
    { <<"A", "a">>, <<"B", "b">>, <<"C", "c">>, <<"D", "d">>, <<"E", "e">>,
      <<"F", "f">>, <<"G", "g">>, <<"H", "h">>, <<"I", "i">>, <<"J", "j">>,
      <<"K", "k">>, <<"L", "l">>, <<"M", "m">>, <<"N", "n">>, <<"O", "o">>,
      <<"P", "p">>, <<"Q", "q">>, <<"R", "r">>, <<"S", "s">>, <<"T", "t">>,
      <<"U", "u">>, <<"V", "v">>, <<"W", "w">>, <<"X", "x">>, <<"Y", "y">>,
      <<"Z", "z">> }

LowerChar(c) ==
    IF \E p \in LowerPairs : p[1] = c
    THEN (CHOOSE p \in LowerPairs : p[1] = c)[2]
    ELSE c

Lower(s) == AsSeq([i \in DOMAIN s |-> LowerChar(s[i])])

\* ' '.join(parts)
RECURSIVE JoinSpace(_)
JoinSpace(parts) ==
    IF parts = <<>> THEN <<>>
    ELSE IF Len(parts) = 1 THEN parts[1]
    ELSE parts[1] \o <<" ">> \o JoinSpace(Tail(parts))

\* ------------------------------------------------------------------------
\* Sentinels (lines 70, 71, 137, 148, 151, 160)
\* ------------------------------------------------------------------------
NoTitle  == <<"U+C81C", "U+BAA9", " ", "U+C5C6", "U+C74C">>
NoBody   == <<"U+BCF8", "U+BB38", " ", "U+C5C6", "U+C74C">>
NoSource == <<"U+CD9C", "U+CC98", " ", "U+BD88", "U+BA85">>

\* ------------------------------------------------------------------------
\* Source extraction (lines 140-151)
\* ------------------------------------------------------------------------
Lowercase == {"a", "b", "c", "d", "e", "f", "g", "h", "i", "j", "k", "l", "m",
              "n", "o", "p", "q", "r", "s", "t", "u", "v", "w", "x", "y", "z"}
Uppercase == {"A", "B", "C", "D", "E", "F", "G", "H", "I", "J", "K", "L", "M",
              "N", "O", "P", "Q", "R", "S", "T", "U", "V", "W", "X", "Y", "Z"}
Digits == {"0", "1", "2", "3", "4", "5", "6", "7", "8", "9"}

\* [a-zA-Z0-9-]
LabelChars == Lowercase \cup Uppercase \cup Digits \cup {"-"}

\* (?:co\.kr|com|net|org|kr|io|dev|ai|app|info|biz|tv|news|me|blog|cc|xyz)
DomainSuffixes ==
    { <<"c", "o", ".", "k", "r">>, <<"c", "o", "m">>, <<"n", "e", "t">>,
      <<"o", "r", "g">>, <<"k", "r">>, <<"i", "o">>, <<"d", "e", "v">>,
      <<"a", "i">>, <<"a", "p", "p">>, <<"i", "n", "f", "o">>,
      <<"b", "i", "z">>, <<"t", "v">>, <<"n", "e", "w", "s">>, <<"m", "e">>,
      <<"b", "l", "o", "g">>, <<"c", "c">>, <<"x", "y", "z">> }

\* The group ([a-zA-Z0-9-]+\.(?:...)[^/]*) tried with the label starting at
\* k: the label is the maximal run of label characters (a shorter one cannot
\* be followed by a dot), then a dot, then a suffix as a prefix of the rest;
\* [^/]* then runs to the next slash or to the end of the URL.
GroupAt(url, k) ==
    LET stops == {j \in k..Len(url) : url[j] \notin LabelChars}
        dot   == IF stops = {} THEN Len(url) + 1
                 ELSE CHOOSE j \in stops : \A m \in stops : j <= m
        ok    == /\ dot > k
                 /\ dot <= Len(url)
                 /\ url[dot] = "."
                 /\ \E sfx \in DomainSuffixes : StartsAt(url, sfx, dot + 1)
        ends  == {j \in k..Len(url) : url[j] = "/"}
        stop  == IF ends = {} THEN Len(url) + 1
                 ELSE CHOOSE j \in ends : \A m \in ends : j <= m
    IN  [some |-> ok, val |-> IF ok THEN SubSeq(url, k, stop - 1) ELSE <<>>]

\* The pattern tried at position i: https?://(?:www\.)? and then the group.
\* The optional www. is taken first; the match falls back to the host
\* starting at "www" when the group does not match after it.
MatchAt(url, i) ==
    LET http   == <<"h", "t", "t", "p">>
        afterS == IF StartsAt(url, <<"s">>, i + 4) THEN i + 5 ELSE i + 4
        host   == afterS + 3
        www    == StartsAt(url, <<"w", "w", "w", ".">>, host)
    IN  IF ~(StartsAt(url, http, i) /\ StartsAt(url, <<":", "/", "/">>, afterS))
        THEN [some |-> FALSE, val |-> <<>>]
        ELSE IF www /\ GroupAt(url, host + 4).some THEN GroupAt(url, host + 4)
        ELSE GroupAt(url, host)

\* re.search(pattern, url): the leftmost position where the pattern matches;
\* the result is group(1) of that match.
SearchDomain(url) ==
    LET hits == {i \in 1..Len(url) : MatchAt(url, i).some}
    IN  IF hits = {} THEN [some |-> FALSE, val |-> <<>>]
        ELSE MatchAt(url, CHOOSE i \in hits : \A j \in hits : i <= j)

\* Lines 140-151.
ExtractSource(url) ==
    LET match  == SearchDomain(url)
        labels == SplitOn(match.val, ".")
        picked == IF ~match.some THEN NoSource
                  ELSE IF Contains(match.val, <<".", "c", "o", ".", "k", "r">>)
                       THEN labels[1]
                  ELSE labels[Len(labels) - 1]
        clean  == Strip(RemoveChar(picked, "-"))
    IN  IF clean = <<>> THEN NoSource ELSE clean

\* ------------------------------------------------------------------------
\* Decoding (lines 53-64)
\* ------------------------------------------------------------------------

\* The bytes of the model: three ASCII letters, the space, and three bytes
\* above 0x7F (0xA1, 0xB0, 0xC2) that are lead and trail bytes of euc-kr,
\* a lead byte (0xC2) and continuation bytes (0xA1, 0xB0) of utf-8.
AsciiChar(b) ==
    CASE b = 32 -> " " [] b = 84 -> "T" [] b = 112 -> "p"
      [] b = 120 -> "x" [] b = 121 -> "y"

\* bytes.decode('euc-kr') of a lead/trail pair (KS X 1001 rows of the bytes).
EucKrPair(lead, trail) ==
    CASE lead = 161 /\ trail = 161 -> "U+3000"
      [] lead = 161 /\ trail = 176 -> "U+201C"
      [] lead = 161 /\ trail = 194 -> "U+2264"
      [] lead = 176 /\ trail = 161 -> "U+AC00"
      [] lead = 176 /\ trail = 176 -> "U+AC19"
      [] lead = 176 /\ trail = 194 -> "U+AC54"
      [] lead = 194 /\ trail = 161 -> "U+C9D5"
      [] lead = 194 /\ trail = 176 -> "U+C9F8"
      [] lead = 194 /\ trail = 194 -> "U+CA5F"

\* content.decode('euc-kr', errors='replace') (line 60): a lead byte with no
\* trail byte after it is an invalid sequence and becomes U+FFFD; decoding
\* goes on with the next byte.  Every byte above 0x7F of the model is a lead
\* and a trail byte, so within a run of such bytes the bytes at even offsets
\* start a character and those at odd offsets end one.
DecodeEucKr(b) ==
    LET RunStart(i) ==
            LET low == {j \in 1..(i - 1) : b[j] < 128}
            IN  IF low = {} THEN 1
                ELSE 1 + CHOOSE j \in low : \A m \in low : m <= j
    IN  Compact([i \in DOMAIN b |->
            IF b[i] < 128 THEN AsciiChar(b[i])
            ELSE IF (i - RunStart(i)) % 2 = 1 THEN ""
            ELSE IF i < Len(b) /\ b[i + 1] >= 128
                 THEN EucKrPair(b[i], b[i + 1])
            ELSE "U+FFFD"])

\* str(content, 'utf-8', errors='replace'): 0xC2 and a continuation byte are
\* one character; any other byte above 0x7F is an invalid sequence.
DecodeUtf8(b) ==
    Compact([i \in DOMAIN b |->
            IF b[i] < 128 THEN AsciiChar(b[i])
            ELSE IF b[i] = 194 /\ i < Len(b) /\ b[i + 1] \in {161, 176}
                 THEN IF b[i + 1] = 161 THEN "U+00A1" ELSE "U+00B0"
            ELSE IF b[i] \in {161, 176} /\ i > 1 /\ b[i - 1] = 194 THEN ""
            ELSE "U+FFFD"])

\* str(content, 'ISO-8859-1', errors='replace'): one character per byte.
DecodeLatin1(b) ==
    AsSeq([i \in DOMAIN b |->
        IF b[i] < 128 THEN AsciiChar(b[i])
        ELSE CASE b[i] = 161 -> "U+00A1" [] b[i] = 176 -> "U+00B0"
               [] b[i] = 194 -> "U+00C2"])

CharsetEucKr == <<"c", "h", "a", "r", "s", "e", "t", "=", "e", "u", "c", "-", "k", "r">>
CharsetUtf8  == <<"c", "h", "a", "r", "s", "e", "t", "=", "u", "t", "f", "-", "8">>
DtDomain     == <<"d", "t", ".", "c", "o", ".", "k", "r">>

\* response.encoding as requests derives it from the Content-Type header:
\* the charset parameter, or ISO-8859-1 for a text type that names none.
ResponseEncoding(content_type) ==
    IF Contains(Lower(content_type), CharsetEucKr) THEN "euc-kr"
    ELSE IF Contains(Lower(content_type), CharsetUtf8) THEN "utf-8"
    ELSE "ISO-8859-1"

Decode(encoding, b) ==
    CASE encoding = "euc-kr"     -> DecodeEucKr(b)
      [] encoding = "utf-8"      -> DecodeUtf8(b)
      [] encoding = "ISO-8859-1" -> DecodeLatin1(b)

\* Line 57: the condition under which the bytes are decoded again as euc-kr.
NeedsEucKr(content_type, url) ==
    Contains(Lower(content_type), CharsetEucKr) \/ Contains(url, DtDomain)

\* Lines 53-64: the encoding that produces text_content.
TextEncoding(content_type, url) ==
    IF NeedsEucKr(content_type, url) THEN "euc-kr"
    ELSE ResponseEncoding(content_type)

\* ------------------------------------------------------------------------
\* The document
\* ------------------------------------------------------------------------
\* A page is the record
\*   [og_tag, og_has_content, og_content, title_tag, title_text, elems]:
\* whether a <meta property="og:title"> exists, whether it has a content
\* attribute and that attribute; whether a <title> exists and its text; and
\* the container elements of the body in document order.  An element is
\*   [tag, classes, id, itemprop, nodes]
\* and each node of it is [name, text]: a text node (name "#text") or a child
\* tag holding one string.  The markup is ASCII and decodes alike under the
\* three encodings, so decoding a page is decoding its strings.
DecodeNodes(nodes, encoding) ==
    AsSeq([i \in DOMAIN nodes |->
        [name |-> nodes[i].name, text |-> Decode(encoding, nodes[i].text)]])

\* BeautifulSoup(content decoded with encoding, 'html.parser')  (line 66)
ParseDecoded(page, encoding) ==
    [og_tag         |-> page.og_tag,
     og_has_content |-> page.og_has_content,
     og_content     |-> Decode(encoding, page.og_content),
     title_tag      |-> page.title_tag,
     title_text     |-> Decode(encoding, page.title_text),
     elems          |-> AsSeq([i \in DOMAIN page.elems |->
                            [page.elems[i] EXCEPT
                                !.nodes = DecodeNodes(@, encoding)]])]

\* ------------------------------------------------------------------------
\* Title (lines 69-71)
\* ------------------------------------------------------------------------
Some(s) == [some |-> TRUE, val |-> s]
None    == [some |-> FALSE, val |-> <<>>]

\* soup.title.string: None for a <title> with no text in it.
TitleString(soup) ==
    IF soup.title_text = <<>> THEN None ELSE Some(soup.title_text)

\* Line 70.
RawTitle(soup) ==
    IF soup.og_tag /\ soup.og_has_content /\ soup.og_content # <<>>
    THEN Some(soup.og_content)
    ELSE IF soup.title_tag THEN TitleString(soup)
    ELSE Some(NoTitle)

\* Line 71: title.strip() if title else the sentinel.
StripOrSentinel(raw) ==
    IF raw.some /\ raw.val # <<>> THEN Strip(raw.val) ELSE NoTitle

ExtractTitle(soup) == StripOrSentinel(RawTitle(soup))

\* ------------------------------------------------------------------------
\* Body (lines 74-137)
\* ------------------------------------------------------------------------

\* possible_body_selectors (lines 75-98).  A selector string is kept as the
\* sequence of its lexical tokens: tag, separator, name.
possible_body_selectors ==
    << <<"div", ".", "article_view">>,
       <<"div", ".", "article_head_body">>,
       <<"div", "#", "article_content">>,
       <<"div", ".", "article_body_content">>,
       <<"div", "#", "harmonyContainer">>,
       <<"div", ".", "article-view-content-wrapper">>,
       <<"div", ".", "news_content">>,
       <<"div", ".", "article_content">>,
       <<"div", ".", "body_content">>,
       <<"div", ".", "entry-content">>,
       <<"section", ".", "article-body">>,
       <<"div", ".", "view_page_text">>,
       <<"div", "[", "itemprop", "=", "articleBody", "]">>,
       <<"article">>,
       <<"div", "#", "articleBody">>,
       <<"div", ".", "contents_area">>,
       <<"div", ".", "news_view">>,
       <<"div", ".", "view_txt">>,
       <<"div", ".", "txt_area">>,
       <<"div", ".", "article_text">>,
       <<"div", ".", "news_content_area">>,
       <<"div", ".", "cont_art">> >>

NumSelectors == Len(possible_body_selectors)

\* Lines 102-111: whether element el is one the lookup for sel can return.
SelectorMatches(el, sel) ==
    IF "[" \in Range(sel) /\ "]" \in Range(sel)
    THEN el.tag = sel[1] /\ sel[3] = "itemprop" /\ el.itemprop = sel[5]
    ELSE IF "." \in Range(sel)
    THEN LET parts == SplitOn(sel, ".")
         IN  el.tag = parts[1][1] /\ parts[2][1] \in el.classes
    ELSE IF "#" \in Range(sel)
    THEN LET parts == SplitOn(sel, "#")
         IN  el.tag = parts[1][1] /\ el.id = parts[2][1]
    ELSE el.tag = sel[1]

\* soup.select_one / soup.find: the first matching element in document
\* order, as its index in the page, 0 for None.
FindElement(soup, sel) ==
    LET hits == {i \in DOMAIN soup.elems : SelectorMatches(soup.elems[i], sel)}
    IN  IF hits = {} THEN 0 ELSE CHOOSE i \in hits : \A j \in hits : i <= j

\* Lines 115-116.
StrippedTags == {"script", "style", "ins", "iframe", "noscript", "img",
                 "figure", "ul", "ol", "blockquote", "a", "strong", "em"}
AlwaysRemoved == {"script", "style", "ins", "iframe", "noscript"}

\* Line 116: whether the node is decomposed.
Decomposed(node) ==
    /\ node.name \in StrippedTags
    /\ Strip(node.text) = <<>> \/ node.name \in AlwaysRemoved

\* Lines 115-117 on the nodes of the matched element.
CleanNodes(nodes) == SelectSeq(nodes, LAMBDA n : ~Decomposed(n))

\* get_text(separator=' ', strip=True): the stripped, non-empty strings of
\* the element joined by one space; the text inside script and style is no
\* string of the enclosing element.
GetText(nodes) ==
    LET shown == SelectSeq(nodes, LAMBDA n :
                     n.name \notin {"script", "style"} /\ Strip(n.text) # <<>>)
    IN  JoinSpace(AsSeq([i \in DOMAIN shown |-> Strip(shown[i].text)]))

\* Lines 119-120.
ElementText(nodes) == NormalizeText(GetText(nodes))

MinSelectorBody == 150
FallbackBelow   == 150
MinParagraph    == 20
MinFallbackBody == 100

\* Mutant of BodyAccepted: the comparison of line 122 written as >=.
BodyAccepted_AtLeast(text) == Len(text) >= MinSelectorBody

\* Line 122: the selector's text ends the scan.
BodyAccepted(text) == Len(text) > MinSelectorBody

\* Line 126.
NeedsFallback(text) == text = <<>> \/ Len(text) < FallbackBelow

ExcludedParents == {"reply", "footer", "copyright", "ad_unit"}

\* Lines 127-129: the texts of the valid paragraphs in document order.
RECURSIVE ValidParagraphs(_)
ValidParagraphs(elems) ==
    IF elems = <<>> THEN <<>>
    ELSE LET el == Head(elems)
             ps == SelectSeq(el.nodes, LAMBDA n :
                       /\ n.name = "p"
                       /\ Len(Strip(n.text)) > MinParagraph
                       /\ el.classes \cap ExcludedParents = {})
         IN  AsSeq([i \in DOMAIN ps |-> Strip(ps[i].text)])
                 \o ValidParagraphs(Tail(elems))

\* Lines 130-134: the body after the paragraph fallback.
ParagraphFallback(soup, text) ==
    LET valid == ValidParagraphs(soup.elems)
        temp  == NormalizeText(JoinSpace(valid))
    IN  IF valid # <<>> /\ Len(temp) > MinFallbackBody THEN temp ELSE text

\* Mutant of BodyOrSentinel: lines 136-137 left out.
BodyOrSentinel_NoSubstitute(text) == text

\* Lines 136-137.
BodyOrSentinel(text) == IF text = <<>> THEN NoBody ELSE text

\* ------------------------------------------------------------------------
\* Exception handlers of extract_info_from_url (lines 155-160)
\* ------------------------------------------------------------------------
\* The exceptions of the model: subclasses of requests' RequestException,
\* raised by lines 45-46, and other subclasses of Exception.
RequestExceptions == {"Timeout", "ConnectionError", "HTTPError"}
OtherExceptions   == {"TypeError", "RecursionError"}

\* Mutant of ExceptClause: the clause of line 158 left out.
ExceptClause_RequestOnly(exc) ==
    IF exc \in RequestExceptions THEN "RequestException" ELSE ""

\* Lines 155 and 158: the except clause that catches the exception, "" when
\* none does and the exception leaves the function.
ExceptClause(exc) ==
    IF exc \in RequestExceptions THEN "RequestException"
    ELSE IF exc \in RequestExceptions \cup OtherExceptions THEN "Exception"
    ELSE ""

\* Line 157.
RequestErrorResult == << <<>>, <<>>, <<>> >>

\* Line 160.
UnexpectedErrorResult == <<NoTitle, NoBody, NoSource>>

\* ------------------------------------------------------------------------
\* Inputs
\* ------------------------------------------------------------------------
MaxElems == 2
ShortLen == 10

Run(b, n) == AsSeq([i \in 1..n |-> b])

Http  == <<"h", "t", "t", "p", ":", "/", "/">>
Https == <<"h", "t", "t", "p", "s", ":", "/", "/">>

\* What the user types into the link field.
LinkInputs ==
    { <<" ", " ">>,
      Http \o <<"w", "w", "w", ".", "e", "x", "a", "m", "p", "l", "e", ".", "c", "o", "m", "/">>,
      Http \o <<"n", "e", "w", "s", ".", "e", "x", "a", "m", "p", "l", "e", ".", "c", "o", ".", "k", "r", "/", "a">>,
      Https \o <<"d", "t", ".", "c", "o", ".", "k", "r", "/", "x">>,
      Http \o <<"e", "x", "a", "m", "p", "l", "e", ".", "c", "o", "m", "/", "?", "r", "=", "d", "t", ".", "c", "o", ".", "k", "r">>,
      Https \o <<"m", "y", "-", "s", "i", "t", "e", ".", "n", "e", "t">>,
      Http \o <<"l", "o", "c", "a", "l", "h", "o", "s", "t", "/">>,
      Http \o <<"-", "-", "-", ".", "c", "o", "m", "/">> }

TitleInputs == { <<>>, <<" ">>, <<"T">> }
BodyInputs  == { <<>>, <<"x">> }

ContentTypes ==
    << <<"t", "e", "x", "t", "/", "h", "t", "m", "l", ";", " ",
        "c", "h", "a", "r", "s", "e", "t", "=", "u", "t", "f", "-", "8">>,
      <<"t", "e", "x", "t", "/", "h", "t", "m", "l", ";", " ",
        "c", "h", "a", "r", "s", "e", "t", "=", "E", "U", "C", "-", "K", "R">>,
       <<"t", "e", "x", "t", "/", "h", "t", "m", "l">> >>

\* The head of a page: og:title and <title>, as bytes.
Heads ==
    << \* no og:title, an empty <title>
       [og_tag |-> FALSE, og_has_content |-> FALSE, og_content |-> <<>>,
        title_tag |-> TRUE, title_text |-> <<>>],
       \* a blank og:title content, a <title> with text
       [og_tag |-> TRUE, og_has_content |-> TRUE, og_content |-> <<32>>,
        title_tag |-> TRUE, title_text |-> <<84>>],
       \* an og:title content with surrounding spaces and a two-byte character
       [og_tag |-> TRUE, og_has_content |-> TRUE, og_content |-> <<32, 176, 161, 32>>,
        title_tag |-> FALSE, title_text |-> <<>>],
       \* an og:title tag without content, a <title> of two bytes above 0x7F
       [og_tag |-> TRUE, og_has_content |-> FALSE, og_content |-> <<>>,
        title_tag |-> TRUE, title_text |-> <<161, 161>>],
       \* an empty og:title content, no <title>
       [og_tag |-> TRUE, og_has_content |-> TRUE, og_content |-> <<>>,
        title_tag |-> FALSE, title_text |-> <<>>] >>

Half == MinSelectorBody \div 2

\* The container elements a page is made of.
ElemPool ==
    << \* first selector: a cleaned text of MinSelectorBody + 1 characters
       [tag |-> "div", classes |-> {"article_view"}, id |-> "", itemprop |-> "",
        nodes |-> << [name |-> "script", text |-> Run(121, ShortLen)],
                     [name |-> "#text", text |-> <<32>> \o Run(120, Half)],
                     [name |-> "a", text |-> <<32>>],
                     [name |-> "strong", text |-> Run(120, Half) \o <<32, 32>>] >>],
       \* third selector: exactly MinSelectorBody characters
       [tag |-> "div", classes |-> {}, id |-> "article_content", itemprop |-> "",
        nodes |-> << [name |-> "#text", text |-> Run(120, MinSelectorBody)] >>],
       \* selector 13: a long paragraph
       [tag |-> "div", classes |-> {}, id |-> "", itemprop |-> "articleBody",
        nodes |-> << [name |-> "p", text |-> Run(121, MinSelectorBody + ShortLen)] >>],
       \* selector 14: a text below MinSelectorBody; the element is an excluded
       \* parent of its paragraph
       [tag |-> "article", classes |-> {"footer"}, id |-> "", itemprop |-> "",
        nodes |-> << [name |-> "#text", text |-> Run(121, ShortLen)],
                     [name |-> "p", text |-> Run(112, MinFallbackBody + ShortLen)] >>],
       \* no selector: two valid paragraphs around one that is too short
       [tag |-> "div", classes |-> {"wrap"}, id |-> "", itemprop |-> "",
        nodes |-> << [name |-> "p", text |-> Run(112, Half)],
                     [name |-> "p", text |-> Run(112, MinParagraph)],
                     [name |-> "p", text |-> Run(112, MinParagraph + ShortLen)] >>] >>

\* A page is served as the index of its head and the indices of its
\* elements: up to MaxElems different elements of the pool, in any order.
ElemLists ==
    {es \in UNION {[1..n -> DOMAIN ElemPool] : n \in 0..MaxElems} :
        \A i, j \in DOMAIN es : es[i] = es[j] => i = j}

PageOf(head, elems) ==
    [og_tag         |-> Heads[head].og_tag,
     og_has_content |-> Heads[head].og_has_content,
     og_content     |-> Heads[head].og_content,
     title_tag      |-> Heads[head].title_tag,
     title_text     |-> Heads[head].title_text,
     elems          |-> AsSeq([i \in DOMAIN elems |-> ElemPool[elems[i]]])]

EmptyPage ==
    [og_tag |-> FALSE, og_has_content |-> FALSE, og_content |-> <<>>,
     title_tag |-> FALSE, title_text |-> <<>>, elems |-> <<>>]

\* What the network and the server do with the request: the outcome of the
\* connection, the status, and the Content-Type header and page served.
Webs ==
    { [net |-> n, status |-> 0, ctype |-> 1, head |-> 1, elems |-> <<>>] :
        n \in {"Timeout", "ConnectionError"} }
    \cup
    { [net |-> "ok", status |-> st, ctype |-> 1, head |-> 1, elems |-> <<>>] :
        st \in {404, 500} }
    \cup
    { [net |-> "ok", status |-> 200, ctype |-> ct, head |-> h, elems |-> es] :
        ct \in DOMAIN ContentTypes, h \in DOMAIN Heads, es \in ElemLists }

\* response.headers.get('Content-Type', '') and the bytes of response.content
ContentType(w) == ContentTypes[w.ctype]
Content(w)     == PageOf(w.head, w.elems)

\* ------------------------------------------------------------------------
\* State
\* ------------------------------------------------------------------------
VARIABLES
    pc,               \* position in the script: handler and extraction steps
    web,              \* the environment: network outcome and served page
    check_method,     \* 0 before the click, then 1, 2 or 3
    link_input,       \* what the link field holds; the url of the extraction
    text_to_analyze,
    accuracy_hint,    \* the hint st.info shows under the result
    response,         \* whether requests.get has returned a response
    soup,             \* the parsed document (mutated by decompose)
    title, body, source,
    sel_i,            \* index of the selector the loop is at
    result,           \* the triple extract_info_from_url returned
    steps,            \* the extraction steps that have run
    break_at,         \* the selector index at which the loop broke, or 0
    raised,           \* the step at which an unexpected exception was raised
    messages,         \* the st.error / st.warning / st.info shown
    predicted         \* whether the classifier was invoked

vars == <<pc, web, check_method, link_input, text_to_analyze, accuracy_hint,
          response, soup,
          title, body, source, sel_i, result, steps, break_at, raised,
          messages, predicted>>

Init ==
    /\ pc = "load"
    /\ web \in Webs
    /\ check_method = 0
    /\ link_input = <<>>
    /\ text_to_analyze = <<>>
    /\ accuracy_hint = ""
    /\ response = FALSE
    /\ soup = EmptyPage
    /\ title = <<>>
    /\ body = <<>>
    /\ source = <<>>
    /\ sel_i = 0
    /\ result = <<>>
    /\ steps = {}
    /\ break_at = 0
    /\ raised = ""
    /\ messages = {}
    /\ predicted = FALSE

extract_unchanged ==
    <<web, check_method, link_input, text_to_analyze, accuracy_hint, predicted>>

\* ------------------------------------------------------------------------
\* The loading of the classifier, the input form and the button handler
\* before the extraction (lines 17-36 and 288-364)
\* ------------------------------------------------------------------------
\* What joblib.load raises when a file is missing, and when it holds no
\* loadable object.
LoadErrors == {"FileNotFoundError", "UnpicklingError"}

\* Lines 17-36: the classifier and the vectorizer are loaded before the form
\* is drawn; a failure is reported and the script stops.
load_model_and_vectorizer ==
    /\ pc = "load"
    /\ \/ /\ pc' = "idle"
          /\ UNCHANGED messages
       \/ \E exc \in LoadErrors :
            /\ messages' = messages \cup
                 (IF exc = "FileNotFoundError"
                  THEN {"error:load_missing", "error:load_missing_model_path",
                        "error:load_missing_vectorizer_path"}
                  ELSE {"error:load_failed"})
            /\ pc' = "stopped"
    /\ UNCHANGED <<web, check_method, link_input, text_to_analyze,
                   accuracy_hint, response, soup, title, body, source, sel_i,
                   result, steps, break_at, raised, predicted>>

\* The values of accuracy_hint.
HintTitleOnly       == "low (title only)"                \* lines 301 and 350
HintBodyOnly        == "medium (body only)"              \* line 353
HintTitleBody       == "high (title + body)"             \* line 356
HintTitleBodyForm   == "form: high (title + body)"       \* line 316
HintTitleBodySource == "high (title + body + source)"    \* line 324

\* Lines 294-302 and 337-341: the form assigns text_to_analyze and the hint
\* when it is drawn, before the handler looks at the title.
ClickTitleOnly ==
    /\ pc = "idle"
    /\ \E t \in TitleInputs :
        /\ check_method' = 1
        /\ accuracy_hint' = HintTitleOnly
        /\ text_to_analyze' = t
        /\ IF Strip(t) = <<>>
           THEN /\ messages' = messages \cup {"warning:empty_title"}
                /\ pc' = "stopped"
           ELSE /\ pc' = "predict"
                /\ UNCHANGED messages
    /\ UNCHANGED <<web, link_input, response, soup, title, body, source, sel_i,
                   result, steps, break_at, raised, predicted>>

\* Lines 304-316 and 343-356.
ClickTitleBody ==
    /\ pc = "idle"
    /\ \E t \in TitleInputs, b \in BodyInputs :
        /\ check_method' = 2
        /\ IF Strip(t) = <<>> /\ Strip(b) = <<>>
           THEN /\ messages' = messages \cup {"warning:empty_title_body"}
                /\ pc' = "stopped"
                /\ accuracy_hint' = HintTitleBodyForm
                /\ UNCHANGED text_to_analyze
           ELSE /\ text_to_analyze' =
                     IF Strip(b) = <<>> THEN t
                     ELSE IF Strip(t) = <<>> THEN b
                     ELSE t \o <<" ">> \o b
                /\ accuracy_hint' =
                     IF Strip(b) = <<>> THEN HintTitleOnly
                     ELSE IF Strip(t) = <<>> THEN HintBodyOnly
                     ELSE HintTitleBody
                /\ pc' = "predict"
                /\ UNCHANGED messages
    /\ UNCHANGED <<web, link_input, response, soup, title, body, source, sel_i,
                   result, steps, break_at, raised, predicted>>

\* Lines 318-324 and 358-364: the form assigns link_input when it is drawn;
\* the link is checked and extract_info_from_url is called.
ClickLink ==
    /\ pc = "idle"
    /\ \E u \in LinkInputs :
        /\ check_method' = 3
        /\ accuracy_hint' = HintTitleBodySource
        /\ link_input' = u
        /\ IF Strip(u) = <<>>
           THEN /\ messages' = messages \cup {"warning:empty_link"}
                /\ pc' = "stopped"
           ELSE /\ pc' = "request"
                /\ UNCHANGED messages
    /\ UNCHANGED <<web, text_to_analyze, response, soup, title, body, source,
                   sel_i, result, steps, break_at, raised, predicted>>

\* ------------------------------------------------------------------------
\* extract_info_from_url (lines 39-160)
\* ------------------------------------------------------------------------
\* The function returns r: its locals are gone, the handler goes on.
Returns(r) ==
    /\ result' = r
    /\ pc' = "returned"
    /\ response' = FALSE
    /\ soup' = EmptyPage
    /\ title' = <<>>
    /\ body' = <<>>
    /\ source' = <<>>
    /\ sel_i' = 0

\* Lines 155-160: exc is raised inside the try block.
Raise(exc) ==
    IF ExceptClause(exc) = "RequestException"
    THEN /\ messages' = messages \cup {"error:request"}
         /\ Returns(RequestErrorResult)
    ELSE IF ExceptClause(exc) = "Exception"
    THEN /\ messages' = messages \cup {"warning:unexpected"}
         /\ Returns(UnexpectedErrorResult)
    ELSE /\ pc' = "crashed"
         /\ UNCHANGED <<messages, result, response, soup, title, body, source, sel_i>>

\* Line 45: requests.get raises on a timeout or a connection failure.
Request ==
    /\ pc = "request"
    /\ IF web.net # "ok"
       THEN /\ Raise(web.net)
            /\ UNCHANGED <<steps, break_at, raised>>
       ELSE /\ response' = TRUE
            /\ pc' = "status"
            /\ UNCHANGED <<soup, title, body, source, sel_i, result, steps,
                           break_at, raised, messages>>
    /\ UNCHANGED extract_unchanged

\* Line 46: raise_for_status raises HTTPError on a 4xx or 5xx status.
RaiseForStatus ==
    /\ pc = "status"
    /\ IF web.status >= 400
       THEN /\ Raise("HTTPError")
            /\ UNCHANGED <<steps, break_at, raised>>
       ELSE /\ pc' = "decode"
            /\ UNCHANGED <<response, soup, title, body, source, sel_i, result,
                           steps, break_at, raised, messages>>
    /\ UNCHANGED extract_unchanged

\* Lines 53-66: text_content is chosen and parsed.
DecodeAndParse ==
    /\ pc = "decode"
    /\ soup' = ParseDecoded(Content(web), TextEncoding(ContentType(web), link_input))
    /\ messages' = IF NeedsEucKr(ContentType(web), link_input)
                   THEN messages \cup {"info:euc-kr"} ELSE messages
    /\ steps' = steps \cup {"decode"}
    /\ pc' = "title"
    /\ UNCHANGED <<response, title, body, source, sel_i, result, break_at, raised>>
    /\ UNCHANGED extract_unchanged

\* Lines 69-74.
Title ==
    /\ pc = "title"
    /\ title' = ExtractTitle(soup)
    /\ body' = <<>>
    /\ sel_i' = 1
    /\ steps' = steps \cup {"title"}
    /\ pc' = "select"
    /\ UNCHANGED <<response, soup, source, result, break_at, raised, messages>>
    /\ UNCHANGED extract_unchanged

\* Lines 100-123: one iteration of the loop over the selectors.
TrySelector ==
    /\ pc = "select"
    /\ LET k    == FindElement(soup, possible_body_selectors[sel_i])
           kept == CleanNodes(soup.elems[k].nodes)
           text == ElementText(kept)
           stop == k # 0 /\ BodyAccepted(text)
       IN  /\ soup' = IF k = 0 THEN soup
                      ELSE [soup EXCEPT !.elems[k].nodes = kept]
           /\ body' = IF k = 0 THEN body ELSE text
           /\ break_at' = IF stop THEN sel_i ELSE break_at
           /\ IF stop \/ sel_i = NumSelectors
              THEN pc' = "fallback" /\ UNCHANGED sel_i
              ELSE pc' = "select" /\ sel_i' = sel_i + 1
    /\ steps' = steps \cup {"select"}
    /\ UNCHANGED <<response, title, source, result, raised, messages>>
    /\ UNCHANGED extract_unchanged

\* Lines 126-137.
Fallback ==
    /\ pc = "fallback"
    /\ IF NeedsFallback(body)
       THEN /\ body' = BodyOrSentinel(ParagraphFallback(soup, body))
            /\ steps' = steps \cup {"paragraphs"}
       ELSE /\ body' = BodyOrSentinel(body)
            /\ UNCHANGED steps
    /\ pc' = "source"
    /\ UNCHANGED <<response, soup, title, source, sel_i, result, break_at,
                   raised, messages>>
    /\ UNCHANGED extract_unchanged

\* Lines 140-151.
Source ==
    /\ pc = "source"
    /\ source' = ExtractSource(link_input)
    /\ steps' = steps \cup {"source"}
    /\ pc' = "return"
    /\ UNCHANGED <<response, soup, title, body, sel_i, result, break_at,
                   raised, messages>>
    /\ UNCHANGED extract_unchanged

\* Line 153.
Return ==
    /\ pc = "return"
    /\ Returns(<<title, body, source>>)
    /\ UNCHANGED <<steps, break_at, raised, messages>>
    /\ UNCHANGED extract_unchanged

\* Lines 158-160: any other exception raised by a statement of lines 53-151
\* (the parser, a lookup, a regular expression) is caught here.
PostFetchSteps == {"decode", "title", "select", "fallback", "source"}

Unexpected ==
    /\ pc \in PostFetchSteps
    /\ \E exc \in OtherExceptions : Raise(exc)
    /\ raised' = pc
    /\ UNCHANGED <<steps, break_at>>
    /\ UNCHANGED extract_unchanged

\* ------------------------------------------------------------------------
\* The button handler, after the extraction (lines 366-429)
\* ------------------------------------------------------------------------
\* Line 366.
NothingLoaded(r) == r[1] = <<>> /\ r[2] = <<>>

\* Line 369.
NothingFound(r) == r[1] = NoTitle /\ r[2] = NoBody

\* Lines 366-380.
AfterExtract ==
    /\ pc = "returned"
    /\ IF NothingLoaded(result)
       THEN /\ messages' = messages \cup {"error:not_loaded"}
            /\ pc' = "stopped"
            /\ UNCHANGED text_to_analyze
       ELSE IF NothingFound(result)
       THEN /\ messages' = messages \cup {"error:no_content"}
            /\ pc' = "stopped"
            /\ UNCHANGED text_to_analyze
       ELSE /\ text_to_analyze' =
                 result[1] \o <<" ">> \o result[2] \o <<" ">> \o result[3]
            /\ messages' = messages \cup
                 (IF result[2] # NoBody THEN {"success:title", "info:source"}
                  ELSE {"success:title", "info:source", "warning:no_body"})
            /\ pc' = "predict"
    /\ UNCHANGED <<web, check_method, link_input, accuracy_hint, response, soup,
                   title, body, source, sel_i, result, steps, break_at, raised,
                   predicted>>

\* model.classes_ of the classifier loaded at line 36: the labels it was
\* trained on. It is read once, at line 394.
ClassLists == { <<0, 1>>, <<0, 2>>, <<1, 2>> }

\* percent_clickbait (line 396), on either side of both thresholds.
Percents == {20, 80}

HighPercent == 70
LowPercent  == 30

\* Lines 408-427: what is shown for the predicted label.
ResultMessages(predicted_label, percent_clickbait) ==
    IF predicted_label = 1
    THEN {"error:clickbait",
          IF percent_clickbait > HighPercent THEN "caption:caution"
          ELSE "caption:clickbait_low_probability"}
    ELSE IF predicted_label = 0
    THEN {"success:normal",
          IF percent_clickbait < LowPercent THEN "caption:safe"
          ELSE "caption:normal_unclear_probability"}
    ELSE {"warning:unknown_label"}

\* Lines 383-429: the text is checked and handed to the classifier; the
\* index of label 1 is looked up, the label is predicted and shown.
Predict ==
    /\ pc = "predict"
    /\ IF Strip(text_to_analyze) = <<>>
       THEN /\ messages' = messages \cup {"warning:no_text"}
            /\ pc' = "stopped"
            /\ UNCHANGED predicted
       ELSE /\ predicted' = TRUE
            /\ \E classes \in ClassLists :
                IF 1 \notin Range(classes)
                THEN /\ messages' = messages \cup {"error:no_label_1"}
                     /\ pc' = "stopped"
                ELSE \E predicted_label \in Range(classes),
                        percent_clickbait \in Percents :
                        /\ messages' = messages
                              \cup ResultMessages(predicted_label, percent_clickbait)
                              \cup {"info:accuracy_hint"}
                        /\ pc' = "done"
    /\ UNCHANGED <<web, check_method, link_input, text_to_analyze,
                   accuracy_hint, response, soup, title, body, source, sel_i,
                   result, steps, break_at, raised>>

Next ==
    \/ load_model_and_vectorizer
    \/ ClickTitleOnly
    \/ ClickTitleBody
    \/ ClickLink
    \/ Request
    \/ RaiseForStatus
    \/ DecodeAndParse
    \/ Title
    \/ TrySelector
    \/ Fallback
    \/ Source
    \/ Return
    \/ Unexpected
    \/ AfterExtract
    \/ Predict

Spec == Init /\ [][Next]_vars

\* ------------------------------------------------------------------------
\* Properties
\* ------------------------------------------------------------------------
\* The fetch succeeds: a response arrives and its status is no error status.
Fetched == web.net = "ok" /\ web.status < 400

\* extract_info_from_url has returned to the link-mode handler.
Extracted == check_method = 3 /\ result # <<>>

EmptyTriple == << <<>>, <<>>, <<>> >>

\* The document as parsed from the response, before any selector is tried.
ParsedPage ==
    ParseDecoded(Content(web), TextEncoding(ContentType(web), link_input))

\* The cleaned, whitespace-normalised text selector i yields on page.
SelectorText(page, i) ==
    LET k == FindElement(page, possible_body_selectors[i])
    IN  IF k = 0 THEN None
        ELSE Some(ElementText(CleanNodes(page.elems[k].nodes)))

\* The selectors that yield a text of more than n characters on page.
YieldMoreThan(page, n) ==
    {i \in {j \in 1..NumSelectors :
                FindElement(page, possible_body_selectors[j]) # 0} :
        Len(SelectorText(page, i).val) > n}

Least(S) == CHOOSE i \in S : \A j \in S : i <= j

\* The joined, normalised text of the valid paragraphs of page.
FallbackText(page) == NormalizeText(JoinSpace(ValidParagraphs(page.elems)))

\* The host of a URL: what follows the scheme, up to the path or the query.
HostOf(url) ==
    LET from == IF StartsAt(url, Https, 1) THEN Len(Https) + 1
                ELSE IF StartsAt(url, Http, 1) THEN Len(Http) + 1 ELSE 1
        ends == {j \in from..Len(url) : url[j] \in {"/", "?", "#", ":"}}
    IN  SubSeq(url, from, IF ends = {} THEN Len(url) ELSE Least(ends) - 1)

\* The labels of the host, without a leading www.
HostLabels(url) ==
    LET all == SplitOn(HostOf(url), ".")
    IN  IF Len(all) > 1 /\ all[1] = <<"w", "w", "w">> THEN Tail(all) ELSE all

EndsWithCoKr(labels) ==
    /\ Len(labels) >= 3
    /\ labels[Len(labels) - 1] = <<"c", "o">>
    /\ labels[Len(labels)] = <<"k", "r">>

\* C1: extract_info_from_url returns the all-empty triple exactly when the
\* fetch fails; on a fetch failure the network error is reported and no
\* decoding, title, body or source step has run; after a successful fetch the
\* title and the body are never both empty.
C1_EmptyTripleIffFetchFails ==
    Extracted =>
        /\ (result = EmptyTriple) <=> ~Fetched
        /\ ~Fetched => /\ "error:request" \in messages
                       /\ "warning:unexpected" \notin messages
                       /\ steps = {}
                       /\ raised = ""
        /\ Fetched => ~(result[1] = <<>> /\ result[2] = <<>>)

\* C1 witness: a 404 response made the call return three empty strings.
C1_Witness ==
    /\ pc = "returned"
    /\ web.status = 404
    /\ result = EmptyTriple
    /\ "error:request" \in messages

\* C2: after a successful fetch each of title, body and source returned by
\* extract_info_from_url is a non-empty string.
C2_FieldsNeverEmpty ==
    (Extracted /\ Fetched) => \A i \in 1..3 : result[i] # <<>>

\* C3: the source is the leftmost host label for a host ending in .co.kr,
\* the second-to-last host label for a host with another recognised suffix,
\* hyphens stripped, and the sentinel only when the host has no recognised
\* suffix or the label is blank.
C3_SourceFromHostLabel ==
    pc = "return" =>
        LET labels == HostLabels(link_input)
            known  == \/ EndsWithCoKr(labels)
                      \/ Len(labels) >= 2 /\ labels[Len(labels)] \in DomainSuffixes
            label  == IF EndsWithCoKr(labels) THEN labels[1]
                      ELSE labels[Len(labels) - 1]
            clean  == Strip(RemoveChar(label, "-"))
        IN  source = IF known /\ clean # <<>> THEN clean ELSE NoSource

\* C4: if some selector yields a cleaned text of at least 150 characters the
\* paragraph fallback never runs and the body is a selector's text.
C4_FallbackNeverRunsAfterLongSelector ==
    pc = "source" =>
        LET page == ParsedPage
        IN  YieldMoreThan(page, MinSelectorBody - 1) # {} =>
                /\ "paragraphs" \notin steps
                /\ \E i \in 1..NumSelectors :
                       SelectorText(page, i).some /\ body = SelectorText(page, i).val

\* C5: if no selector yields more than 150 characters and the paragraph
\* fallback yields no more than 100, the body is the sentinel.
C5_SentinelWhenNothingQualifies ==
    pc = "source" =>
        LET page == ParsedPage
        IN  (/\ YieldMoreThan(page, MinSelectorBody) = {}
             /\ Len(FallbackText(page)) <= MinFallbackBody) => body = NoBody

\* C6: the title is the trimmed og:title content when it is present and not
\* blank, else the trimmed <title> text when it is present and not blank,
\* else the sentinel.
C6_TitlePriority ==
    (pc = "select" /\ sel_i = 1) =>
        LET page == ParsedPage
        IN  title = IF page.og_tag /\ page.og_has_content
                       /\ Strip(page.og_content) # <<>>
                    THEN Strip(page.og_content)
                    ELSE IF page.title_tag /\ Strip(page.title_text) # <<>>
                    THEN Strip(page.title_text)
                    ELSE NoTitle

\* C7: the bytes are decoded again as euc-kr if and only if the declared
\* charset is euc-kr or the domain of the URL is dt.co.kr; otherwise the
\* baseline decode is what is parsed.
C7_EucKrIffCharsetOrDomain ==
    pc = "title" =>
        LET labels   == HostLabels(link_input)
            n        == Len(labels)
            dtDomain == /\ n >= 3
                        /\ <<labels[n - 2], labels[n - 1], labels[n]>>
                               = << <<"d", "t">>, <<"c", "o">>, <<"k", "r">> >>
            declared == Contains(Lower(ContentType(web)), CharsetEucKr)
            again    == declared \/ dtDomain
        IN  /\ ("info:euc-kr" \in messages) <=> again
            /\ soup = ParseDecoded(Content(web),
                        IF again THEN "euc-kr"
                        ELSE ResponseEncoding(ContentType(web)))

\* C8: an unexpected failure raised after a successful fetch never leaves
\* extract_info_from_url: the call returns the sentinel triple, which is not
\* the all-empty triple of a fetch failure.
C8_UnexpectedFailureGivesSentinels ==
    raised # "" =>
        /\ Fetched
        /\ pc # "crashed"
        /\ result = <<NoTitle, NoBody, NoSource>>
        /\ result # EmptyTriple

\* C8 witness: an exception raised inside the selector loop was handled.
C8_Witness ==
    /\ raised = "select"
    /\ pc = "returned"
    /\ "warning:unexpected" \in messages

\* C9: the selectors are tried in catalog order; when some selector yields
\* more than 150 characters the scan stops at the first such selector and its
\* text is the body that is returned; a selector yielding 150 characters or
\* fewer never stops the scan.
C9_FirstLongSelectorWins ==
    /\ pc = "select" => break_at = 0 /\ sel_i \in 1..NumSelectors
    /\ pc \in {"fallback", "source"} =>
        \A page \in {ParsedPage} :
        \A long \in {YieldMoreThan(page, MinSelectorBody)} :
            IF long = {}
            THEN break_at = 0 /\ sel_i = NumSelectors
            ELSE /\ break_at = Least(long)
                 /\ sel_i = Least(long)
                 /\ body = SelectorText(page, Least(long)).val
    /\ (pc = "returned" /\ Fetched /\ raised = "") =>
        \A page \in {ParsedPage} :
        \A long \in {YieldMoreThan(page, MinSelectorBody)} :
            /\ break_at # 0 => break_at \in long
            /\ long # {} => /\ break_at = Least(long)
                            /\ result[2] = SelectorText(page, Least(long)).val

\* C9 witness: selector 13 matches the first element of the page and
\* selector 1 the second, both with long texts; the scan stopped at selector 1.
C9_Witness ==
    /\ pc = "source"
    /\ web.elems = <<3, 1>>
    /\ break_at = 1
    /\ Len(body) = MinSelectorBody + 1

\* C10: in link mode the classifier is invoked only when the extraction
\* gave a title that is neither empty nor its sentinel or a body that is
\* neither empty nor its sentinel.
C10_ClassifierOnlyOnUsableContent ==
    (check_method = 3 /\ predicted) =>
        \/ result[1] \notin {<<>>, NoTitle}
        \/ result[2] \notin {<<>>, NoBody}

====
